---------------------------- MODULE Spec2Model ----------------------------
(* Risk-evaluation pipeline of Learn-Protect:                              *)
(*   moteur_analyse/regles_heuristiques.py  (HeuristicEngine, the rules)   *)
(*   moteur_analyse/score_de_risque.py      (ScoringEngine)                *)
(*   learning_module.py                     (LearningModule alert store)   *)
(*   backend_server.py                      (threaded callers)             *)
EXTENDS Integers, Sequences, FiniteSets, TLC

VARIABLES
    engine,        \* ScoringEngine: thresholds, rule_weights, absolute_overrides
    triggers,      \* the trigger list handed to score_from_triggers
    result,        \* the ScoreResult of the last score_from_triggers call
    process_data,  \* the record handed to HeuristicEngine.analyze
    heur_out,      \* what analyze produced: {score, triggers} or an exception
    alerts,        \* LearningModule.alerts, an insertion-ordered dict
    alert_counter, \* LearningModule.alert_counter
    resources,     \* LearningModule.resources, the catalog
    op,            \* the LearningModule method that ran last, and its argument
    ret,           \* what that method returned
    returned,      \* every alert a create_alert call has returned so far
    th,            \* per thread: position inside create_alert and its locals
    heuristic_output, \* the dict handed to score_from_heuristic_output
    score_result,  \* the ScoreResult handed to classify and generate
    classified,    \* what the classify calls on score_result returned, in order
    generated,     \* what the generate calls on score_result returned, in order
    rule_order,    \* HeuristicEngine.rules, the list analyze iterates over
    modules,       \* AnalysisEngine: TRUE when __init__ could import its modules
    targets,       \* analyze_processes: the processes of the current cycle
    proc_results   \* analyze_processes: its results list, one entry per process done

vars == <<engine, triggers, result, process_data, heur_out,
          alerts, alert_counter, resources, op, ret, returned, th,
          heuristic_output, score_result, classified, generated,
          rule_order, modules, targets, proc_results>>

scoreVars == <<engine, triggers, result>>
heurVars  == <<process_data, heur_out>>
storeVars == <<alerts, alert_counter, resources, op, ret, returned, th>>
pipeVars  == <<heuristic_output>>
viewVars  == <<score_result, classified, generated>>
orderVars == <<rule_order>>
cycleVars == <<modules, targets, proc_results>>

\* Python values carry their type, so that a None can be told from a str, an
\* int, a dict or a list wherever the code may meet one.
PyNone == [t |-> "none"]
PyStr(s) == [t |-> "str", v |-> s]
PyInt(n) == [t |-> "int", v |-> n]
PyBool(b) == [t |-> "bool", v |-> b]
PyDict(d) == [t |-> "dict", v |-> d]
PyList(l) == [t |-> "list", v |-> l]

IsNone(x) == "t" \in DOMAIN x /\ x.t = "none"
\* `x or default` on an Optional[dict] argument: None and {} are both falsy
IsFalsy(x) == IsNone(x) \/ DOMAIN x = {}

----------------------------------------------------------------------------
(* Bounds of the model *)
MaxTriggers == 3   \* longest trigger list scored
MaxConns == 2      \* most connections in a process record
MaxFields == 3     \* most keys present in a process record
MaxAlerts == 3     \* most create_alert calls in a behaviour
MaxRules == 3      \* longest triggered_rules list of an alert
MaxLimit == 4      \* largest limit handed to get_recent_alerts
NumThreads == 2    \* server threads inside create_alert at once
MaxProcs == 2      \* most processes of one analyze_processes cycle
MaxCalls == 2      \* most classify (generate) calls on one ScoreResult

----------------------------------------------------------------------------
(* Generic helpers over sequences and dicts *)

Range(s) == {s[i] : i \in 1..Len(s)}

SeqsUpTo(S, n) == UNION {[1..k -> S] : k \in 0..n}

RECURSIVE SumSet(_, _)
\* sum(d.values()) of a dict d, taken over the key set K
SumSet(d, K) ==
    IF K = {} THEN 0
    ELSE LET k == CHOOSE x \in K : TRUE
         IN d[k] + SumSet(d, K \ {k})

SumValues(d) == SumSet(d, DOMAIN d)

\* d.get(k, default)
DictGet(d, k, default) == IF k \in DOMAIN d THEN d[k] ELSE default

\* d[k] = v
DictSet(d, k, v) == [x \in (DOMAIN d) \cup {k} |-> IF x = k THEN v ELSE d[x]]

EmptyDict == [x \in {} |-> 0]

----------------------------------------------------------------------------
(* moteur_analyse/score_de_risque.py *)

DEFAULT_THRESHOLDS == [safe |-> 30, suspicious |-> 70]

\* A float multiplier is held as a number of quarters (w = q/4): quarters are
\* exact binary floats, so base_score * w is exact and round() sees the true
\* product.
One == 4

\* Python 3 round(): round half to even, on the product n/4.
PyRound(n) ==
    LET q == n \div One
        r == n % One
    IN IF 2 * r < One THEN q
       ELSE IF 2 * r > One THEN q + 1
       ELSE IF q % 2 = 0 THEN q ELSE q + 1

\* a rule without a weight is halved
_apply_weight_default_half(e, rule_id, base_score) ==
    IF rule_id \in DOMAIN e.absolute_overrides
    THEN e.absolute_overrides[rule_id]
    ELSE PyRound(base_score * DictGet(e.rule_weights, rule_id, One \div 2))

\* the weight is looked up before the override
_apply_weight_weight_first(e, rule_id, base_score) ==
    IF rule_id \in DOMAIN e.rule_weights
    THEN PyRound(base_score * e.rule_weights[rule_id])
    ELSE DictGet(e.absolute_overrides, rule_id, base_score)

_apply_weight(e, rule_id, base_score) ==
    IF rule_id \in DOMAIN e.absolute_overrides
    THEN e.absolute_overrides[rule_id]
    ELSE PyRound(base_score * DictGet(e.rule_weights, rule_id, One))

LevelStrict(e, total) ==
    IF total < e.thresholds.safe THEN "SAFE"
    ELSE IF total < e.thresholds.suspicious THEN "SUSPICIOUS"
    ELSE "DANGEROUS"

\* Classification by thresholds
Level(e, total) ==
    IF total <= e.thresholds.safe THEN "SAFE"
    ELSE IF total <= e.thresholds.suspicious THEN "SUSPICIOUS"
    ELSE "DANGEROUS"

RECURSIVE ScoreLoopRawTotal(_, _, _, _)
\* total += trig.score
ScoreLoopRawTotal(e, trigs, i, acc) ==
    IF i > Len(trigs) THEN acc
    ELSE LET trig == trigs[i]
             effective == _apply_weight(e, trig.rule_id, trig.score)
         IN ScoreLoopRawTotal(e, trigs, i + 1,
              [breakdown |-> DictSet(acc.breakdown, trig.rule_id,
                                DictGet(acc.breakdown, trig.rule_id, 0) + trig.score),
               adjusted_scores |-> DictSet(acc.adjusted_scores, trig.rule_id,
                                DictGet(acc.adjusted_scores, trig.rule_id, 0) + effective),
               total |-> acc.total + trig.score])

RECURSIVE ScoreLoopAssign(_, _, _, _)
\* total = effective
ScoreLoopAssign(e, trigs, i, acc) ==
    IF i > Len(trigs) THEN acc
    ELSE LET trig == trigs[i]
             effective == _apply_weight(e, trig.rule_id, trig.score)
         IN ScoreLoopAssign(e, trigs, i + 1,
              [breakdown |-> DictSet(acc.breakdown, trig.rule_id,
                                DictGet(acc.breakdown, trig.rule_id, 0) + trig.score),
               adjusted_scores |-> DictSet(acc.adjusted_scores, trig.rule_id,
                                DictGet(acc.adjusted_scores, trig.rule_id, 0) + effective),
               total |-> effective])

RECURSIVE ScoreLoop(_, _, _, _)
\* the accumulation loop over the normalized triggers, from index i on
ScoreLoop(e, trigs, i, acc) ==
    IF i > Len(trigs) THEN acc
    ELSE LET trig == trigs[i]
             effective == _apply_weight(e, trig.rule_id, trig.score)
         IN ScoreLoop(e, trigs, i + 1,
              [breakdown |-> DictSet(acc.breakdown, trig.rule_id,
                                DictGet(acc.breakdown, trig.rule_id, 0) + trig.score),
               adjusted_scores |-> DictSet(acc.adjusted_scores, trig.rule_id,
                                DictGet(acc.adjusted_scores, trig.rule_id, 0) + effective),
               total |-> acc.total + effective])

ScoreAcc0 == [breakdown |-> EmptyDict, adjusted_scores |-> EmptyDict, total |-> 0]

\* One normalized trigger: rule_id is the first truthy of t.get("rule_id"),
\* t.get("rule"), t.get("id") (None when there is none); score, message and
\* metadata take 0, "" and {} when the key is missing.
Trigger(t) ==
    [rule_id |-> IF "rule_id" \in DOMAIN t /\ t.rule_id # "" THEN t.rule_id
                 ELSE IF "rule" \in DOMAIN t /\ t.rule # "" THEN t.rule
                 ELSE IF "id" \in DOMAIN t /\ t.id # "" THEN t.id
                 ELSE "None",
     score |-> DictGet(t, "score", 0),
     message |-> DictGet(t, "message", <<>>),
     metadata |-> DictGet(t, "metadata", EmptyDict)]

\* the `normalized` list of score_from_triggers
Normalized(trigs) == [i \in 1..Len(trigs) |-> Trigger(trigs[i])]

\* the level is taken from the sum of the raw scores
score_from_triggers_raw_level(e, trigs) ==
    LET normalized == Normalized(trigs)
        acc == ScoreLoop(e, normalized, 1, ScoreAcc0)
    IN [total_score |-> acc.total,
        level |-> Level(e, SumValues(acc.breakdown)),
        breakdown |-> acc.breakdown,
        triggers |-> normalized,
        adjusted_scores |-> acc.adjusted_scores]

score_from_triggers(e, trigs) ==
    LET normalized == Normalized(trigs)
        acc == ScoreLoop(e, normalized, 1, ScoreAcc0)
    IN [total_score |-> acc.total,
        level |-> Level(e, acc.total),
        breakdown |-> acc.breakdown,
        triggers |-> normalized,
        adjusted_scores |-> acc.adjusted_scores]

\* the score field is trusted instead of the triggers
score_from_heuristic_output_trusting(e, ho) ==
    LET r == score_from_triggers(e, DictGet(ho, "triggers", <<>>))
        total == DictGet(ho, "score", 0)
    IN [r EXCEPT !.total_score = total, !.level = Level(e, total)]

\* heuristic_output.get("triggers", []) is scored; the score field is not read
score_from_heuristic_output(e, ho) ==
    score_from_triggers(e, DictGet(ho, "triggers", <<>>))

\* ScoringEngine.__init__: a None (or empty) argument takes the default
ScoringEngine(thresholds, rule_weights, absolute_overrides) ==
    [thresholds |-> IF IsFalsy(thresholds) THEN DEFAULT_THRESHOLDS ELSE thresholds,
     rule_weights |-> IF IsFalsy(rule_weights) THEN EmptyDict ELSE rule_weights,
     absolute_overrides |-> IF IsFalsy(absolute_overrides) THEN EmptyDict
                            ELSE absolute_overrides]

\* Constructor arguments the model draws the engine from.
ThresholdArgs ==
    {PyNone, [safe |-> 10, suspicious |-> 20], [safe |-> 50, suspicious |-> 20]}

WeightArgs ==
    {PyNone,
     [r \in {"UNSIGNED_BINARY"} |-> 8],                        \* 2.0
     [r \in {"INTEGRITY_FAIL"} |-> 6],                         \* 1.5
     [r \in {"PATH_TMP"} |-> 6],                               \* 1.5
     [r \in {"NETWORK_MANY_CONN", "UNSIGNED_BINARY"} |->
          IF r = "NETWORK_MANY_CONN" THEN 2 ELSE 1]}           \* 0.5, 0.25

OverrideArgs ==
    {PyNone,
     [r \in {"PATH_TMP"} |-> 50],
     [r \in {"UNSIGNED_BINARY", "CUSTOM"} |->
          IF r = "UNSIGNED_BINARY" THEN 0 ELSE 0 - 10]}

Engines ==
    {ScoringEngine(t, w, o) : t \in ThresholdArgs, w \in WeightArgs, o \in OverrideArgs}

\* Trigger dicts a caller hands to score_from_triggers: the rules' own
\* (rule_id, score) pairs and one caller-made trigger.
TriggerInputs ==
    {[rule_id |-> "PATH_TMP", score |-> 20],
     [rule_id |-> "UNSIGNED_BINARY", score |-> 10],
     [rule_id |-> "NETWORK_MANY_CONN", score |-> 25],
     [rule_id |-> "NETWORK_SUSPICIOUS_IP", score |-> 30],
     [rule_id |-> "INTEGRITY_FAIL", score |-> 40],
     [rule_id |-> "CUSTOM", score |-> 1]}

NoResult == [none |-> TRUE]
IsResult(r) == "total_score" \in DOMAIN r

\* Values of the variables a specification does not use.
IdleScore == engine = ScoringEngine(PyNone, PyNone, PyNone) /\ triggers = <<>> /\ result = NoResult

InitScore == engine \in Engines /\ triggers = <<>> /\ result = NoResult

\* score_from_triggers on the empty list
ScoreEmpty ==
    /\ triggers' = <<>>
    /\ result' = score_from_triggers(engine, triggers')
    /\ UNCHANGED engine

\* score_from_triggers on the previous list with one more trigger
ScoreAppended(t) ==
    /\ Len(triggers) < MaxTriggers
    /\ triggers' = Append(triggers, t)
    /\ result' = score_from_triggers(engine, triggers')
    /\ UNCHANGED engine

NextScore ==
    \/ ScoreEmpty
    \/ \E t \in TriggerInputs : ScoreAppended(t)

----------------------------------------------------------------------------
(* Python str: a sequence of one-character strings, so that lower(),      *)
(* startswith() and split() are computed and not assumed.                  *)

s_empty == <<>>   \* ''
s_tmp == <<"/", "t", "m", "p">>   \* '/tmp'
s_appdata == <<"a", "p", "p", "d", "a", "t", "a", "\\", "l", "o", "c", "a", "l", "\\", "t", "e", "m", "p">>   \* 'appdata\\local\\temp'
s_downloads == <<"d", "o", "w", "n", "l", "o", "a", "d", "s">>   \* 'downloads'
s_var_tmp == <<"/", "v", "a", "r", "/", "t", "m", "p">>   \* '/var/tmp'
s_ru == <<"r", "u">>   \* 'ru'
s_cn == <<"c", "n">>   \* 'cn'
s_kp == <<"k", "p">>   \* 'kp'
s_ir == <<"i", "r">>   \* 'ir'
s_root == <<"r", "o", "o", "t">>   \* 'root'
s_administrator == <<"a", "d", "m", "i", "n", "i", "s", "t", "r", "a", "t", "o", "r">>   \* 'administrator'
s_systemd == <<"s", "y", "s", "t", "e", "m", "d">>   \* 'systemd'
s_services_exe == <<"s", "e", "r", "v", "i", "c", "e", "s", ".", "e", "x", "e">>   \* 'services.exe'
s_wininit_exe == <<"w", "i", "n", "i", "n", "i", "t", ".", "e", "x", "e">>   \* 'wininit.exe'
s_word_exe == <<"w", "o", "r", "d", ".", "e", "x", "e">>   \* 'word.exe'
s_powershell_exe == <<"p", "o", "w", "e", "r", "s", "h", "e", "l", "l", ".", "e", "x", "e">>   \* 'powershell.exe'
s_winword_exe == <<"w", "i", "n", "w", "o", "r", "d", ".", "e", "x", "e">>   \* 'winword.exe'
s_cmd_exe == <<"c", "m", "d", ".", "e", "x", "e">>   \* 'cmd.exe'
s_firefox == <<"f", "i", "r", "e", "f", "o", "x">>   \* 'firefox'
s_bash == <<"b", "a", "s", "h">>   \* 'bash'
s_chrome == <<"c", "h", "r", "o", "m", "e">>   \* 'chrome'
s_modified == <<"m", "o", "d", "i", "f", "i", "e", "d">>   \* 'modified'
s_python == <<"p", "y", "t", "h", "o", "n">>   \* 'python'

Uppercase == {"A", "B", "C", "D", "E", "F", "G", "H", "I", "J", "K", "L", "M", "N", "O", "P", "Q", "R", "S", "T", "U", "V", "W", "X", "Y", "Z"}

LowerChar(c) ==
    CASE c = "A" -> "a"
      [] c = "B" -> "b"
      [] c = "C" -> "c"
      [] c = "D" -> "d"
      [] c = "E" -> "e"
      [] c = "F" -> "f"
      [] c = "G" -> "g"
      [] c = "H" -> "h"
      [] c = "I" -> "i"
      [] c = "J" -> "j"
      [] c = "K" -> "k"
      [] c = "L" -> "l"
      [] c = "M" -> "m"
      [] c = "N" -> "n"
      [] c = "O" -> "o"
      [] c = "P" -> "p"
      [] c = "Q" -> "q"
      [] c = "R" -> "r"
      [] c = "S" -> "s"
      [] c = "T" -> "t"
      [] c = "U" -> "u"
      [] c = "V" -> "v"
      [] c = "W" -> "w"
      [] c = "X" -> "x"
      [] c = "Y" -> "y"
      [] c = "Z" -> "z"
      [] OTHER -> c

\* str.lower()
Lower(s) == [i \in 1..Len(s) |-> LowerChar(s[i])]

\* str.startswith(p)
StartsWith(s, p) == Len(p) <= Len(s) /\ SubSeq(s, 1, Len(p)) = p

\* s.split("/")[-1]: what follows the last "/" (all of s when it has none)
LastSegment(s) ==
    LET slashes == {i \in 1..Len(s) : s[i] = "/"}
    IN IF slashes = {} THEN s
       ELSE LET last == CHOOSE i \in slashes : \A j \in slashes : j <= i
            IN SubSeq(s, last + 1, Len(s))

----------------------------------------------------------------------------
(* moteur_analyse/regles_heuristiques.py *)

\* A check() either returns its list of HeuristicResult or raises.
Ok(l) == [raised |-> FALSE, results |-> l]
Raise(err) == [raised |-> TRUE, error |-> err]

HeuristicResult(rule_id, score, message, metadata) ==
    [rule_id |-> rule_id, score |-> score, message |-> message, metadata |-> metadata]

\* data.get(key, default), on a dict of typed values
Get(data, key, default) == IF key \in DOMAIN data THEN data[key] ELSE default

MANY_CONN_LIMIT == 20
HIGH_CPU_LIMIT == 80
HIGH_MEMORY_LIMIT == 500 * 1024 * 1024

suspicious_paths == <<s_tmp, s_appdata, s_downloads, s_var_tmp>>
suspicious_zones == {s_ru, s_cn, s_kp, s_ir}
admin_users == {s_root, s_administrator}
allowed_parents == {s_systemd, s_services_exe, s_wininit_exe}
suspicious_pairs == <<
    <<s_word_exe, s_powershell_exe>>,
    <<s_winword_exe, s_cmd_exe>>,
    <<s_firefox, s_bash>>,
    <<s_chrome, s_python>> >>

RulePathTmp(data) ==
    LET x == Get(data, "exe_path", PyStr(s_empty))
    IN IF x.t # "str" THEN Raise("AttributeError")
       ELSE LET exe == Lower(x.v)
                hits == {i \in 1..Len(suspicious_paths) : StartsWith(exe, suspicious_paths[i])}
            IN IF hits = {} THEN Ok(<<>>)
               ELSE LET first == CHOOSE i \in hits : \A j \in hits : i <= j
                    IN Ok(<<HeuristicResult("PATH_TMP", 20,
                             <<"PATH_TMP", suspicious_paths[first]>>,
                             [exe |-> PyStr(exe)])>>)

RuleHiddenFile(data) ==
    LET x == Get(data, "exe_path", PyStr(s_empty))
    IN IF x.t # "str" THEN Raise("AttributeError")
       ELSE IF StartsWith(LastSegment(x.v), <<".">>)
            THEN Ok(<<HeuristicResult("HIDDEN_FILE", 15, <<"HIDDEN_FILE">>,
                       [exe |-> x])>>)
            ELSE Ok(<<>>)

RuleManyConnections(data) ==
    LET conns == Get(data, "network", PyList(<<>>))
    IN IF conns.t # "list" THEN Raise("TypeError")
       ELSE IF Len(conns.v) > MANY_CONN_LIMIT
            THEN Ok(<<HeuristicResult("NETWORK_MANY_CONN", 25,
                       <<"NETWORK_MANY_CONN", Len(conns.v)>>,
                       [connections |-> PyInt(Len(conns.v))])>>)
            ELSE Ok(<<>>)

RECURSIVE SuspiciousIPLoop(_, _, _)
\* the loop over data["network"], from connection i on
SuspiciousIPLoop(conns, i, acc) ==
    IF i > Len(conns) THEN Ok(acc)
    ELSE LET conn == conns[i]
             geo == Get(conn, "geo", PyStr(s_empty))
         IN IF geo.t # "str" THEN Raise("AttributeError")
            ELSE IF Lower(geo.v) \in suspicious_zones
                 THEN SuspiciousIPLoop(conns, i + 1,
                        Append(acc, HeuristicResult("NETWORK_SUSPICIOUS_IP", 30,
                            <<"NETWORK_SUSPICIOUS_IP", geo.v>>,
                            [ip |-> Get(conn, "ip", PyNone), geo |-> geo])))
                 ELSE SuspiciousIPLoop(conns, i + 1, acc)

RuleSuspiciousRemoteIP(data) ==
    LET conns == Get(data, "network", PyList(<<>>))
    IN IF conns.t # "list" THEN Raise("TypeError")
       ELSE SuspiciousIPLoop(conns.v, 1, <<>>)

RuleUnsignedBinary(data) ==
    LET sig == Get(data, "signature", PyDict(EmptyDict))
    IN IF sig.t # "dict" THEN Raise("AttributeError")
       ELSE IF LET signed == Get(sig.v, "signed", PyNone)
               IN signed.t = "bool" /\ signed.v = FALSE      \* `is False`
            THEN Ok(<<HeuristicResult("UNSIGNED_BINARY", 10, <<"UNSIGNED_BINARY">>, sig)>>)
            ELSE Ok(<<>>)

RuleUnexpectedAdmin(data) ==
    LET u == Get(data, "user", PyStr(s_empty))
    IN IF u.t # "str" THEN Raise("AttributeError")
       ELSE IF Lower(u.v) \in admin_users
            THEN LET parent == Get(data, "parent_name", PyStr(s_empty))
                 IN IF ~(parent.t = "str" /\ parent.v \in allowed_parents)
                    THEN Ok(<<HeuristicResult("ADMIN_PRIVILEGE", 20, <<"ADMIN_PRIVILEGE">>,
                               [user |-> PyStr(Lower(u.v)), parent |-> parent])>>)
                    ELSE Ok(<<>>)
            ELSE Ok(<<>>)

RuleHighCPU(data) ==
    LET cpu == Get(data, "cpu_percent", PyInt(0))
    IN IF cpu.t # "int" THEN Raise("TypeError")
       ELSE IF cpu.v > HIGH_CPU_LIMIT
            THEN Ok(<<HeuristicResult("HIGH_CPU", 20, <<"HIGH_CPU", cpu.v>>,
                       [cpu |-> cpu])>>)
            ELSE Ok(<<>>)

RuleHighMemory(data) ==
    LET mem == Get(data, "memory_rss", PyInt(0))
    IN IF mem.t # "int" THEN Raise("TypeError")
       ELSE IF mem.v > HIGH_MEMORY_LIMIT
            THEN Ok(<<HeuristicResult("HIGH_MEMORY", 15, <<"HIGH_MEMORY", mem.v>>,
                       [rss |-> mem])>>)
            ELSE Ok(<<>>)

RuleSuspiciousParent(data) ==
    LET p == Get(data, "parent_name", PyStr(s_empty))
        c == Get(data, "name", PyStr(s_empty))
    IN IF p.t # "str" \/ c.t # "str" THEN Raise("AttributeError")
       ELSE LET parent == Lower(p.v)
                child == Lower(c.v)
                hits == {i \in 1..Len(suspicious_pairs) :
                            /\ StartsWith(parent, suspicious_pairs[i][1])
                            /\ StartsWith(child, suspicious_pairs[i][2])}
            IN IF hits = {} THEN Ok(<<>>)
               ELSE Ok(<<HeuristicResult("SUSPICIOUS_PARENT", 25,
                          <<"SUSPICIOUS_PARENT", parent, child>>,
                          [parent |-> PyStr(parent), child |-> PyStr(child)])>>)

RuleIntegrityFailed(data) ==
    LET integ == Get(data, "integrity", PyDict(EmptyDict))
    IN IF integ.t # "dict" THEN Raise("AttributeError")
       ELSE IF LET status == Get(integ.v, "status", PyNone)
               IN status.t = "str" /\ status.v = s_modified
            THEN Ok(<<HeuristicResult("INTEGRITY_FAIL", 40, <<"INTEGRITY_FAIL">>, integ)>>)
            ELSE Ok(<<>>)

\* HeuristicEngine.__init__: self.rules, in declaration order
rules == <<"RulePathTmp", "RuleHiddenFile", "RuleManyConnections",
           "RuleSuspiciousRemoteIP", "RuleUnsignedBinary", "RuleUnexpectedAdmin",
           "RuleHighCPU", "RuleHighMemory", "RuleSuspiciousParent",
           "RuleIntegrityFailed">>

\* rule.check(process_data), dispatched on the rule's class
check(rule, data) ==
    CASE rule = "RulePathTmp" -> RulePathTmp(data)
      [] rule = "RuleHiddenFile" -> RuleHiddenFile(data)
      [] rule = "RuleManyConnections" -> RuleManyConnections(data)
      [] rule = "RuleSuspiciousRemoteIP" -> RuleSuspiciousRemoteIP(data)
      [] rule = "RuleUnsignedBinary" -> RuleUnsignedBinary(data)
      [] rule = "RuleUnexpectedAdmin" -> RuleUnexpectedAdmin(data)
      [] rule = "RuleHighCPU" -> RuleHighCPU(data)
      [] rule = "RuleHighMemory" -> RuleHighMemory(data)
      [] rule = "RuleSuspiciousParent" -> RuleSuspiciousParent(data)
      [] rule = "RuleIntegrityFailed" -> RuleIntegrityFailed(data)

RECURSIVE SumScoresPerRule(_)
\* the score of each rule id counted once
SumScoresPerRule(results) ==
    IF results = <<>> THEN 0
    ELSE (IF \E i \in 2..Len(results) : results[i].rule_id = Head(results).rule_id
          THEN 0 ELSE Head(results).score)
         + SumScoresPerRule(Tail(results))

RECURSIVE SumScores(_)
\* sum(r.score for r in results)
SumScores(results) ==
    IF results = <<>> THEN 0
    ELSE Head(results).score + SumScores(Tail(results))

RECURSIVE AnalyzeLoopFirstMatch(_, _, _, _)
\* `for rule in self.rules` that stops at the first rule that fires
AnalyzeLoopFirstMatch(rs, data, i, results) ==
    IF i > Len(rs) \/ results # <<>> THEN Ok(results)
    ELSE LET r == check(rs[i], data)
         IN IF r.raised THEN [raised |-> TRUE, error |-> r.error, rule |-> rs[i]]
            ELSE AnalyzeLoopFirstMatch(rs, data, i + 1, results \o r.results)

RECURSIVE AnalyzeLoop(_, _, _, _)
\* `for rule in self.rules`: an exception of a check() leaves analyze at once
AnalyzeLoop(rs, data, i, results) ==
    IF i > Len(rs) THEN Ok(results)
    ELSE LET r == check(rs[i], data)
         IN IF r.raised THEN [raised |-> TRUE, error |-> r.error, rule |-> rs[i]]
            ELSE AnalyzeLoop(rs, data, i + 1, results \o r.results)

\* HeuristicEngine.analyze over the rule list rs
analyze_rules(rs, data) ==
    LET r == AnalyzeLoop(rs, data, 1, <<>>)
    IN IF r.raised THEN r
       ELSE [raised |-> FALSE, score |-> SumScores(r.results), triggers |-> r.results]

analyze(data) == analyze_rules(rules, data)

\* Process records the model draws from.  The facts the data model calls
\* optional (parent name, geo, signature, integrity) may be missing or None;
\* the others are missing or hold a value of their type.
s_tmp_e == <<"/", "t", "m", "p", "/", "e">>        \* '/tmp/e'
s_TMP_e == <<"/", "T", "M", "P", "/", "e">>        \* '/TMP/e'
s_u_hidden == <<"/", "u", "/", ".", "h">>          \* '/u/.h'
s_u_b == <<"/", "u", "/", "b">>                    \* '/u/b'
s_Root == <<"R", "o", "o", "t">>                   \* 'Root'
s_bob == <<"b", "o", "b">>                         \* 'bob'
s_sh == <<"s", "h">>                               \* 'sh'
s_RU == <<"R", "U">>                               \* 'RU'
s_fr == <<"f", "r">>                               \* 'fr'
s_ok == <<"o", "k">>                               \* 'ok'

Keys == {"exe_path", "user", "parent_name", "name", "cpu_percent",
         "memory_rss", "network", "signature", "integrity"}

\* One connection dict, as NetworkAnalyzer serializes it: geo may be missing
\* or None.
Conns ==
    {EmptyDict,
     [k \in {"geo"} |-> PyNone],
     [k \in {"geo"} |-> PyStr(s_ru)],
     [k \in {"geo"} |-> PyStr(s_RU)],
     [k \in {"geo"} |-> PyStr(s_fr)]}

\* three connections to sensitive zones
SensitiveConns ==
    <<[k \in {"geo"} |-> PyStr(s_ru)], [k \in {"geo"} |-> PyStr(s_RU)],
      [k \in {"geo"} |-> PyStr(s_cn)]>>

\* n connections to a non-sensitive zone
ManyConns(n) == [i \in 1..n |-> [k \in {"geo"} |-> PyStr(s_fr)]]

FieldValues(k) ==
    CASE k = "exe_path" -> {PyStr(s_empty), PyStr(s_tmp_e), PyStr(s_TMP_e),
                            PyStr(s_u_hidden), PyStr(s_u_b)}
      [] k = "user" -> {PyStr(s_empty), PyStr(s_Root), PyStr(s_bob)}
      [] k = "parent_name" -> {PyNone, PyStr(s_systemd), PyStr(s_chrome)}
      [] k = "name" -> {PyStr(s_empty), PyStr(s_python), PyStr(s_sh)}
      [] k = "cpu_percent" -> {PyInt(0), PyInt(HIGH_CPU_LIMIT), PyInt(HIGH_CPU_LIMIT + 1)}
      [] k = "memory_rss" -> {PyInt(0), PyInt(HIGH_MEMORY_LIMIT), PyInt(HIGH_MEMORY_LIMIT + 1)}
      [] k = "network" -> {PyList(l) : l \in SeqsUpTo(Conns, MaxConns)}
                            \cup {PyList(SensitiveConns),
                                  PyList(ManyConns(MANY_CONN_LIMIT)),
                                  PyList(ManyConns(MANY_CONN_LIMIT + 1))}
      [] k = "signature" -> {PyNone, PyDict(EmptyDict),
                             PyDict([x \in {"signed"} |-> PyBool(FALSE)]),
                             PyDict([x \in {"signed"} |-> PyBool(TRUE)]),
                             PyDict([x \in {"error"} |-> PyStr(s_ok)])}
      [] k = "integrity" -> {PyNone, PyDict([x \in {"status"} |-> PyStr(s_modified)]),
                             PyDict([x \in {"status"} |-> PyStr(s_ok)])}

RECURSIVE RecordsOver(_)
\* every dict whose key set is K
RecordsOver(K) ==
    IF K = {} THEN {EmptyDict}
    ELSE LET k == CHOOSE x \in K : TRUE
         IN {DictSet(r, k, v) : r \in RecordsOver(K \ {k}), v \in FieldValues(k)}

\* The record main() and AnalysisEngine.analyze_processes build: every key is
\* present, and the facts they could not collect are None.
caller_record(name, exe_path, user, parent_name, network, signature) ==
    [k \in Keys |->
        CASE k = "name" -> PyStr(name)
          [] k = "exe_path" -> PyStr(exe_path)
          [] k = "user" -> PyStr(user)
          [] k = "parent_name" -> parent_name
          [] k = "cpu_percent" -> PyInt(0)
          [] k = "memory_rss" -> PyInt(0)
          [] k = "network" -> PyList(network)
          [] k = "signature" -> signature
          [] k = "integrity" -> PyNone]

CallerRecords ==
    {caller_record(s_sh, e, s_bob, p, n, s) :
        e \in {s_empty, s_tmp_e}, p \in {PyNone, PyStr(s_systemd)},
        n \in {<<>>, <<[k \in {"geo"} |-> PyStr(s_ru)]>>},
        s \in {PyNone, PyDict([x \in {"signed"} |-> PyBool(FALSE)])}}

ProcessRecords ==
    CallerRecords \cup
    UNION {RecordsOver(K) : K \in {X \in SUBSET Keys : Cardinality(X) <= MaxFields}}

NoOut == [none |-> TRUE]
IsOut(o) == "raised" \in DOMAIN o

IdleHeur == process_data = EmptyDict /\ heur_out = NoOut

InitHeur == process_data \in ProcessRecords /\ heur_out = NoOut

\* one call of HeuristicEngine.analyze(process_data)
Analyze ==
    /\ ~IsOut(heur_out)
    /\ heur_out' = analyze(process_data)
    /\ UNCHANGED process_data

NextHeur == Analyze

----------------------------------------------------------------------------
(* learning_module.py *)

LearningResource(id, category, difficulty, duration_minutes) ==
    [id |-> id, category |-> category, difficulty |-> difficulty,
     duration_minutes |-> duration_minutes]

\* LearningModule._initialize_resources: the catalog, a dict in this order
\* (title, description, content and tags are static text and left out)
_initialize_resources == <<
    LearningResource("malware_tmp_execution", "malware", "beginner", 5),
    LearningResource("network_suspicious_ip", "network", "intermediate", 8),
    LearningResource("privilege_escalation", "privilege", "advanced", 10),
    LearningResource("unsigned_binary", "file", "beginner", 6),
    LearningResource("process_monitoring", "process", "intermediate", 9),
    LearningResource("injection_attack", "malware", "intermediate", 12),
    LearningResource("malware_types", "malware", "intermediate", 14),
    LearningResource("phishing_social_eng", "malware", "beginner", 11),
    LearningResource("password_security", "file", "beginner", 10),
    LearningResource("firewall_basics", "network", "beginner", 13),
    LearningResource("encryption_basics", "file", "intermediate", 15),
    LearningResource("zero_trust_security", "network", "advanced", 16),
    LearningResource("incident_response", "process", "advanced", 18) >>

\* create_alert's rule -> resource table
resource_mapping ==
    [r \in {"PATH_TMP", "PATH_DOWNLOADS", "NETWORK_SUSPICIOUS_IP", "NETWORK_MANY_CONN",
            "PRIV_ESCALATION", "ADMIN_PRIVILEGE", "UNSIGNED_BINARY", "INTEGRITY_FAIL",
            "HIGH_CPU", "HIGH_MEMORY"} |->
        CASE r \in {"PATH_TMP", "PATH_DOWNLOADS"} -> "malware_tmp_execution"
          [] r \in {"NETWORK_SUSPICIOUS_IP", "NETWORK_MANY_CONN"} -> "network_suspicious_ip"
          [] r \in {"PRIV_ESCALATION", "ADMIN_PRIVILEGE"} -> "privilege_escalation"
          [] r \in {"UNSIGNED_BINARY", "INTEGRITY_FAIL"} -> "unsigned_binary"
          [] r \in {"HIGH_CPU", "HIGH_MEMORY"} -> "process_monitoring"]

RECURSIVE Digits(_)
\* str(n) for n >= 0: the decimal digits, most significant first
Digits(n) ==
    LET d == <<"0", "1", "2", "3", "4", "5", "6", "7", "8", "9">>
    IN IF n < 10 THEN <<d[n + 1]>> ELSE Digits(n \div 10) \o <<d[(n % 10) + 1]>>

\* A reading of datetime.now(): whole seconds and microseconds.
\* int(now.timestamp())
UnixSeconds(now) == now.sec

\* now.isoformat(): the date and time down to the second is a fixed-width
\* field (held here as the digits of the second count); ".ffffff" follows
\* only when the microseconds are not zero.
IsoFormat(now) ==
    LET us == Digits(now.us)
        pad == [i \in 1..(6 - Len(us)) |-> "0"]
    IN Digits(now.sec) \o (IF now.us = 0 THEN <<>> ELSE <<".">> \o pad \o us)

\* f"alert_{self.alert_counter}_{process_id}_{int(datetime.now().timestamp())}"
AlertIdNoCounter(counter, process_id, now) ==
    <<"a", "l", "e", "r", "t", "_">> \o Digits(process_id)
        \o <<"_">> \o Digits(UnixSeconds(now))

AlertId(counter, process_id, now) ==
    <<"a", "l", "e", "r", "t", "_">> \o Digits(counter) \o <<"_">> \o Digits(process_id)
        \o <<"_">> \o Digits(UnixSeconds(now))

RECURSIVE MapRulesNoDedup(_, _, _)
MapRulesNoDedup(triggered_rules, i, acc) ==
    IF i > Len(triggered_rules) THEN acc
    ELSE LET rule == triggered_rules[i]
         IN IF rule \in DOMAIN resource_mapping
            THEN MapRulesNoDedup(triggered_rules, i + 1, Append(acc, resource_mapping[rule]))
            ELSE MapRulesNoDedup(triggered_rules, i + 1, acc)

RECURSIVE MapRules(_, _, _)
\* `for rule in triggered_rules`, from index i on
MapRules(triggered_rules, i, acc) ==
    IF i > Len(triggered_rules) THEN acc
    ELSE LET rule == triggered_rules[i]
         IN IF rule \in DOMAIN resource_mapping
            THEN LET resource_id == resource_mapping[rule]
                 IN IF resource_id \notin Range(acc)
                    THEN MapRules(triggered_rules, i + 1, Append(acc, resource_id))
                    ELSE MapRules(triggered_rules, i + 1, acc)
            ELSE MapRules(triggered_rules, i + 1, acc)

\* create_alert's learning_resources local, without the default entry
LearningResourcesNoFallback(triggered_rules) == MapRules(triggered_rules, 1, <<>>)

\* create_alert's learning_resources local
LearningResourcesOf(triggered_rules) ==
    LET learning_resources == MapRules(triggered_rules, 1, <<>>)
    IN IF learning_resources = <<>> THEN <<"process_monitoring">>
       ELSE learning_resources

SecurityAlert(id, timestamp, a, learning_resources) ==
    [id |-> id, timestamp |-> timestamp, process_id |-> a.process_id,
     process_name |-> a.process_name, severity |-> a.severity, title |-> a.title,
     message |-> a.message, triggered_rules |-> a.triggered_rules,
     learning_resources |-> learning_resources]

\* position of key id in the dict d (0 when d does not hold it)
IndexOf(d, id) ==
    IF \E i \in 1..Len(d) : d[i].id = id
    THEN CHOOSE i \in 1..Len(d) : d[i].id = id
    ELSE 0

\* the store keyed by process: an alert takes the place of the one its process had
PutByProcess(d, alert) ==
    LET held == {i \in 1..Len(d) : d[i].process_id = alert.process_id}
    IN IF held = {} THEN Append(d, alert)
       ELSE [d EXCEPT ![CHOOSE i \in held : TRUE] = alert]

\* self.alerts[alert_id] = alert: a held key keeps its place and takes the new
\* value, a new key goes last
Put(d, alert) ==
    LET i == IndexOf(d, alert.id)
    IN IF i = 0 THEN Append(d, alert) ELSE [d EXCEPT ![i] = alert]

\* d[id]: a missing key raises KeyError
LookupSubscript(d, id) ==
    LET i == IndexOf(d, id)
    IN IF i = 0 THEN Raise("KeyError") ELSE [t |-> "object", v |-> d[i]]

\* d.get(id)
Lookup(d, id) ==
    LET i == IndexOf(d, id)
    IN IF i = 0 THEN PyNone ELSE [t |-> "object", v |-> d[i]]

(* Ordering of Python str values made of digits and "." *)
CharOrd(c) ==
    CASE c = "." -> 46 [] c = "0" -> 48 [] c = "1" -> 49 [] c = "2" -> 50
      [] c = "3" -> 51 [] c = "4" -> 52 [] c = "5" -> 53 [] c = "6" -> 54
      [] c = "7" -> 55 [] c = "8" -> 56 [] c = "9" -> 57

RECURSIVE StrLess(_, _)
\* a < b on str
StrLess(a, b) ==
    IF b = <<>> THEN FALSE
    ELSE IF a = <<>> THEN TRUE
    ELSE IF Head(a) # Head(b) THEN CharOrd(Head(a)) < CharOrd(Head(b))
    ELSE StrLess(Tail(a), Tail(b))

RECURSIVE SortTiesReversed(_)
\* sorted ascending, then reversed: equal timestamps come out newest first
SortTiesReversed(l) ==
    IF l = <<>> THEN <<>>
    ELSE LET x == l[Len(l)]
             rest == SortTiesReversed(SubSeq(l, 1, Len(l) - 1))
             before == {i \in 1..Len(rest) : StrLess(x.timestamp, rest[i].timestamp)}
             k == Cardinality(before)
         IN SubSeq(rest, 1, k) \o <<x>> \o SubSeq(rest, k + 1, Len(rest))

RECURSIVE SortByTimestampDesc(_)
\* list.sort(key=lambda x: x.timestamp, reverse=True): stable, so the elements
\* of equal key keep the order they had in the list
SortByTimestampDesc(l) ==
    IF l = <<>> THEN <<>>
    ELSE LET x == l[Len(l)]
             rest == SortByTimestampDesc(SubSeq(l, 1, Len(l) - 1))
             \* x goes after every element whose key is not smaller than its own
             before == {i \in 1..Len(rest) : ~StrLess(rest[i].timestamp, x.timestamp)}
             k == Cardinality(before)
         IN SubSeq(rest, 1, k) \o <<x>> \o SubSeq(rest, k + 1, Len(rest))

\* l[:limit] for limit >= 0
Truncate(l, limit) == SubSeq(l, 1, IF limit < Len(l) THEN limit ELSE Len(l))

\* Readings of the wall clock the model draws from: two in one second (the
\* first on the second's boundary, so isoformat drops its fraction) and one
\* in the next second.
Times == {[sec |-> 100, us |-> 0], [sec |-> 100, us |-> 5], [sec |-> 101, us |-> 0]}

TimeLeq(a, b) == a.sec < b.sec \/ (a.sec = b.sec /\ a.us <= b.us)

\* create_alert reads the clock twice, for the id and then for the timestamp;
\* the two readings of one call fall in the same second
TimePairs == {p \in Times \X Times : TimeLeq(p[1], p[2]) /\ p[1].sec = p[2].sec}

AlertArgsOf(process_id, process_name, severity, title, message, triggered_rules) ==
    [process_id |-> process_id, process_name |-> process_name, severity |-> severity,
     title |-> title, message |-> message, triggered_rules |-> triggered_rules]

\* Argument lists of create_alert as analyze_processes makes them
AlertArgs ==
    {AlertArgsOf(7, "evil", "warning", "Processus suspicious: evil", "m1",
                 <<"PATH_TMP", "UNSIGNED_BINARY">>),
     AlertArgsOf(7, "evil", "critical", "Processus dangerous: evil", "m2",
                 <<"SUSPICIOUS_PARENT">>),
     AlertArgsOf(8, "sh", "critical", "Processus dangerous: sh", "m3",
                 <<"NETWORK_SUSPICIOUS_IP", "NETWORK_SUSPICIOUS_IP", "INTEGRITY_FAIL">>)}

\* Rule ids a caller may pass: mapped ones, and two the table does not hold
RuleIds == {"PATH_TMP", "PATH_DOWNLOADS", "NETWORK_SUSPICIOUS_IP", "HIGH_CPU",
            "HIDDEN_FILE", "UNKNOWN_RULE"}

WideAlertArgs ==
    {AlertArgsOf(1234, "suspicious.exe", s, "t", "m", r) :
        s \in {"info", "warning", "critical"}, r \in SeqsUpTo(RuleIds, MaxRules)}

Object(x) == [t |-> "object", v |-> x]

Call(name, arg) == [name |-> name, arg |-> arg]

IdleStore ==
    /\ alerts = <<>> /\ alert_counter = 0 /\ resources = _initialize_resources
    /\ op = Call("__init__", <<>>) /\ ret = PyNone /\ returned = <<>> /\ th = <<>>

\* LearningModule.__init__
InitStore == IdleStore

\* create_alert run without interruption
create_alert(a, now1, now2) ==
    /\ alert_counter < MaxAlerts
    /\ LET alert_id == AlertId(alert_counter, a.process_id, now1)
           alert == SecurityAlert(alert_id, IsoFormat(now2), a,
                                  LearningResourcesOf(a.triggered_rules))
       IN /\ alerts' = Put(alerts, alert)
          /\ ret' = Object(alert)
          /\ returned' = Append(returned, alert)
    /\ alert_counter' = alert_counter + 1
    /\ op' = Call("create_alert", a)
    /\ UNCHANGED <<resources, th>>

get_alert(alert_id) ==
    /\ ret' = Lookup(alerts, alert_id)
    /\ op' = Call("get_alert", alert_id)
    /\ UNCHANGED <<alerts, alert_counter, resources, returned, th>>

get_recent_alerts_inplace(limit) ==
    /\ alerts' = SortByTimestampDesc(alerts)
    /\ ret' = PyList(Truncate(alerts', limit))
    /\ op' = Call("get_recent_alerts", limit)
    /\ UNCHANGED <<alert_counter, resources, returned, th>>

get_recent_alerts(limit) ==
    /\ LET alerts_list == SortByTimestampDesc(alerts)
       IN ret' = PyList(Truncate(alerts_list, limit))
    /\ op' = Call("get_recent_alerts", limit)
    /\ UNCHANGED <<alerts, alert_counter, resources, returned, th>>

get_alerts_by_severity(severity) ==
    /\ LET P(x) == x.severity = severity
       IN ret' = PyList(SelectSeq(alerts, P))
    /\ op' = Call("get_alerts_by_severity", severity)
    /\ UNCHANGED <<alerts, alert_counter, resources, returned, th>>

get_learning_resource(resource_id) ==
    /\ ret' = Lookup(resources, resource_id)
    /\ op' = Call("get_learning_resource", resource_id)
    /\ UNCHANGED <<alerts, alert_counter, resources, returned, th>>

get_all_learning_resources ==
    /\ ret' = PyList(resources)
    /\ op' = Call("get_all_learning_resources", <<>>)
    /\ UNCHANGED <<alerts, alert_counter, resources, returned, th>>

get_learning_resources_by_category(category) ==
    /\ LET P(x) == x.category = category
       IN ret' = PyList(SelectSeq(resources, P))
    /\ op' = Call("get_learning_resources_by_category", category)
    /\ UNCHANGED <<alerts, alert_counter, resources, returned, th>>

get_learning_resources_by_difficulty(difficulty) ==
    /\ LET P(x) == x.difficulty = difficulty
       IN ret' = PyList(SelectSeq(resources, P))
    /\ op' = Call("get_learning_resources_by_difficulty", difficulty)
    /\ UNCHANGED <<alerts, alert_counter, resources, returned, th>>

\* Arguments of the read accessors: what is stored, and something that is not
UnknownId == <<"a", "l", "e", "r", "t", "_", "x">>
AlertIdArgs == {alerts[i].id : i \in 1..Len(alerts)} \cup {UnknownId}
SeverityArgs == {"critical", "debug"}
ResourceIdArgs == {"process_monitoring", "no_such_resource"}
CategoryArgs == {"network", "cloud"}
DifficultyArgs == {"advanced", "expert"}

Reads ==
    \/ \E id \in AlertIdArgs : get_alert(id)
    \/ \E limit \in 0..MaxLimit : get_recent_alerts(limit)
    \/ \E s \in SeverityArgs : get_alerts_by_severity(s)
    \/ \E r \in ResourceIdArgs : get_learning_resource(r)
    \/ get_all_learning_resources
    \/ \E c \in CategoryArgs : get_learning_resources_by_category(c)
    \/ \E d \in DifficultyArgs : get_learning_resources_by_difficulty(d)

NextStore ==
    \/ \E a \in AlertArgs, p \in TimePairs : create_alert(a, p[1], p[2])
    \/ Reads

\* One create_alert call on a fresh store, over the wide argument set
NextAlert ==
    \E a \in WideAlertArgs, p \in TimePairs :
        alert_counter = 0 /\ create_alert(a, p[1], p[2])

----------------------------------------------------------------------------
(* create_alert as the threaded server runs it (backend_server.py:            *)
(* app.run(threaded=True), /api/processes -> analyze_processes without       *)
(* self.lock): create_alert takes no lock, so a thread may be suspended      *)
(* between any two of its reads and writes of the shared attributes.         *)

Threads == 1..NumThreads

NoArgs == AlertArgsOf(0, "", "", "", "", <<>>)
IdleThread == [pc |-> "idle", a |-> NoArgs, alert_id |-> <<>>, tmp |-> 0]

InitThreads ==
    /\ alerts = <<>> /\ alert_counter = 0 /\ resources = _initialize_resources
    /\ op = Call("__init__", <<>>) /\ ret = PyNone /\ returned = <<>>
    /\ th = [t \in Threads |-> IdleThread]

\* create_alert calls begun so far
Started == Len(returned) + Cardinality({t \in Threads : th[t].pc # "idle"})

\* alert_id = f"alert_{self.alert_counter}_..."  (reads the counter)
ca_format(t, a, now1) ==
    /\ th[t].pc = "idle"
    /\ Started < MaxAlerts
    /\ th' = [th EXCEPT ![t] = [pc |-> "formatted", a |-> a,
                                alert_id |-> AlertId(alert_counter, a.process_id, now1),
                                tmp |-> 0]]
    /\ UNCHANGED <<alerts, alert_counter, resources, op, ret, returned>>

\* self.alert_counter += 1, its read
ca_load(t) ==
    /\ th[t].pc = "formatted"
    /\ th' = [th EXCEPT ![t].pc = "loaded", ![t].tmp = alert_counter]
    /\ UNCHANGED <<alerts, alert_counter, resources, op, ret, returned>>

\* self.alert_counter += 1, its write
ca_store(t) ==
    /\ th[t].pc = "loaded"
    /\ alert_counter' = th[t].tmp + 1
    /\ th' = [th EXCEPT ![t].pc = "stored"]
    /\ UNCHANGED <<alerts, resources, op, ret, returned>>

\* the rest of create_alert: build the alert, self.alerts[alert_id] = alert,
\* return alert
ca_put(t, now2) ==
    /\ th[t].pc = "stored"
    /\ LET alert == SecurityAlert(th[t].alert_id, IsoFormat(now2), th[t].a,
                                  LearningResourcesOf(th[t].a.triggered_rules))
       IN /\ alerts' = Put(alerts, alert)
          /\ ret' = Object(alert)
          /\ returned' = Append(returned, alert)
    /\ op' = Call("create_alert", th[t].a)
    /\ th' = [th EXCEPT ![t] = IdleThread]
    /\ UNCHANGED <<alert_counter, resources>>

NextThreads ==
    \E t \in Threads :
        \/ \E a \in AlertArgs, now1 \in Times : ca_format(t, a, now1)
        \/ ca_load(t)
        \/ ca_store(t)
        \/ \E now2 \in Times : ca_put(t, now2)

----------------------------------------------------------------------------
(* moteur_analyse/classification.py and generateur_messages.py *)

s_SAFE == <<"S", "A", "F", "E">>   \* 'SAFE'
s_SUSPICIOUS == <<"S", "U", "S", "P", "I", "C", "I", "O", "U", "S">>   \* 'SUSPICIOUS'
s_DANGEROUS == <<"D", "A", "N", "G", "E", "R", "O", "U", "S">>   \* 'DANGEROUS'
s_safe == <<"s", "a", "f", "e">>   \* 'safe'
s_Dangerous == <<"D", "a", "n", "g", "e", "r", "o", "u", "s">>   \* 'Dangerous'
s_CRITICAL == <<"C", "R", "I", "T", "I", "C", "A", "L">>   \* 'CRITICAL'

UpperChar(c) ==
    CASE c = "a" -> "A"
      [] c = "b" -> "B"
      [] c = "c" -> "C"
      [] c = "d" -> "D"
      [] c = "e" -> "E"
      [] c = "f" -> "F"
      [] c = "g" -> "G"
      [] c = "h" -> "H"
      [] c = "i" -> "I"
      [] c = "j" -> "J"
      [] c = "k" -> "K"
      [] c = "l" -> "L"
      [] c = "m" -> "M"
      [] c = "n" -> "N"
      [] c = "o" -> "O"
      [] c = "p" -> "P"
      [] c = "q" -> "Q"
      [] c = "r" -> "R"
      [] c = "s" -> "S"
      [] c = "t" -> "T"
      [] c = "u" -> "U"
      [] c = "v" -> "V"
      [] c = "w" -> "W"
      [] c = "x" -> "X"
      [] c = "y" -> "Y"
      [] c = "z" -> "Z"
      [] OTHER -> c

\* str.upper()
Upper(s) == [i \in 1..Len(s) |-> UpperChar(s[i])]

\* The characters of a level string
Chars(level) ==
    CASE level = "SAFE" -> s_SAFE
      [] level = "SUSPICIOUS" -> s_SUSPICIOUS
      [] level = "DANGEROUS" -> s_DANGEROUS
      [] level = "safe" -> s_safe
      [] level = "Dangerous" -> s_Dangerous
      [] level = "CRITICAL" -> s_CRITICAL
      [] level = "" -> s_empty

\* Classifier.LABELS
LABELS ==
    [l \in {s_SAFE, s_SUSPICIOUS, s_DANGEROUS} |->
        CASE l = s_SAFE -> 0 [] l = s_SUSPICIOUS -> 1 [] l = s_DANGEROUS -> 2]

\* Classifier.EXPLANATIONS
EXPLANATIONS ==
    [l \in {s_SAFE, s_SUSPICIOUS, s_DANGEROUS} |->
        CASE l = s_SAFE -> "Aucun comportement malveillant apparent."
          [] l = s_SUSPICIOUS -> "Certains comportements necessitent une verification."
          [] l = s_DANGEROUS -> "Comportement fortement suspect detecte. Action recommandee."]

ClassificationResult(label, level, score, explanation) ==
    [label |-> label, level |-> level, score |-> score, explanation |-> explanation]

\* Classifier.classify
classify(sr) ==
    LET label == Upper(Chars(sr.level))
        level == DictGet(LABELS, label, 0)
        explanation == DictGet(EXPLANATIONS, label, "")
    IN ClassificationResult(label, level, sr.total_score, explanation)

\* The rule ids MessageGenerator has a text for
MessageRuleIds ==
    {"PATH_TMP", "PATH_DOWNLOADS", "HIDDEN_EXECUTABLE", "UNSIGNED_BINARY",
     "NETWORK_SUSPICIOUS_IP", "NETWORK_EXTERNAL", "CPU_SPIKE", "MEMORY_ABNORMAL",
     "INTEGRITY_FAIL", "PRIV_ESCALATION", "PPID_ANOMALY"}

\* MessageGenerator.RULE_EXPLANATIONS: one static text per rule id
RULE_EXPLANATIONS == [r \in MessageRuleIds |-> <<"RULE_EXPLANATIONS", r>>]

\* a practice table that lacks the text of PATH_TMP
RULE_PRACTICES_short ==
    [r \in MessageRuleIds \ {"PATH_TMP"} |-> <<"RULE_PRACTICES", r>>]

\* MessageGenerator.RULE_PRACTICES: one static text per rule id
RULE_PRACTICES == [r \in MessageRuleIds |-> <<"RULE_PRACTICES", r>>]

\* MessageGenerator.LEVEL_SUMMARY
LEVEL_SUMMARY ==
    [l \in {s_SAFE, s_SUSPICIOUS, s_DANGEROUS} |->
        CASE l = s_SAFE -> "Aucun signe de comportement malveillant."
          [] l = s_SUSPICIOUS -> "Activite suspecte detectee. Une verification manuelle est recommandee."
          [] l = s_DANGEROUS -> "Risque eleve : ce processus presente plusieurs indicateurs de comportement dangereux."]

PedagogicMessage(risk_level, score, summary, details, explanations, best_practices) ==
    [risk_level |-> risk_level, score |-> score, summary |-> summary,
     details |-> details, explanations |-> explanations,
     best_practices |-> best_practices]

RECURSIVE GenerateLoopPlaceholder(_, _, _)
\* a rule id without text gets a line all the same
GenerateLoopPlaceholder(trigs, i, acc) ==
    IF i > Len(trigs) THEN acc
    ELSE LET trig == trigs[i]
             rule_id == DictGet(trig, "rule_id", "None")
             msg == DictGet(trig, "message", <<"None">>)
         IN GenerateLoopPlaceholder(trigs, i + 1,
              [details |-> Append(acc.details, <<"* ", msg>>),
               explanations |->
                   Append(acc.explanations,
                          <<"- ", DictGet(RULE_EXPLANATIONS, rule_id, <<>>)>>),
               practices |->
                   Append(acc.practices,
                          <<"> ", DictGet(RULE_PRACTICES, rule_id, <<>>)>>)])

RECURSIVE GenerateLoop(_, _, _)
\* `for trig in score_result.triggers`, from index i on
GenerateLoop(trigs, i, acc) ==
    IF i > Len(trigs) THEN acc
    ELSE LET trig == trigs[i]
             rule_id == DictGet(trig, "rule_id", "None")
             msg == DictGet(trig, "message", <<"None">>)
         IN GenerateLoop(trigs, i + 1,
              [details |-> Append(acc.details, <<"* ", msg>>),
               explanations |->
                   IF rule_id \in DOMAIN RULE_EXPLANATIONS
                   THEN Append(acc.explanations, <<"- ", RULE_EXPLANATIONS[rule_id]>>)
                   ELSE acc.explanations,
               practices |->
                   IF rule_id \in DOMAIN RULE_PRACTICES
                   THEN Append(acc.practices, <<"> ", RULE_PRACTICES[rule_id]>>)
                   ELSE acc.practices])

\* MessageGenerator.generate
generate(sr) ==
    LET risk_level == Upper(Chars(sr.level))
        summary == DictGet(LEVEL_SUMMARY, risk_level, "")
        acc == GenerateLoop(sr.triggers, 1,
                  [details |-> <<>>, explanations |-> <<>>, practices |-> <<>>])
    IN PedagogicMessage(risk_level, sr.total_score, summary, acc.details,
                        acc.explanations, acc.practices)

\* Level strings of ScoreResults a caller builds by hand
LevelArgs == {"safe", "Dangerous", "CRITICAL", ""}

s_tmp_hidden == <<"/", "t", "m", "p", "/", ".", "h">>   \* '/tmp/.h'

\* Records whose analysis gives triggers with a message each: a hidden
\* unsigned binary under /tmp, and one with three sensitive connections
MessageRecords ==
    {[k \in {"exe_path", "signature"} |->
         IF k = "exe_path" THEN PyStr(s_tmp_hidden)
         ELSE PyDict([x \in {"signed"} |-> PyBool(FALSE)])],
     [k \in {"exe_path", "network"} |->
         IF k = "exe_path" THEN PyStr(s_tmp_e) ELSE PyList(SensitiveConns)]}

\* The ScoreResults classify and generate are called on: those the default
\* engine returns on trigger lists and on what analyze returns, and hand-built
\* ones with another level string.
ScoreResults ==
    LET e == ScoringEngine(PyNone, PyNone, PyNone)
        scored == {score_from_triggers(e, t) : t \in SeqsUpTo(TriggerInputs, MaxTriggers)}
        short == {score_from_triggers(e, t) : t \in SeqsUpTo(TriggerInputs, 1)}
        analyzed == {score_from_triggers(e, analyze(r).triggers) : r \in MessageRecords}
    IN scored \cup analyzed \cup {[r EXCEPT !.level = l] : r \in short, l \in LevelArgs}

IdleView == score_result = NoResult /\ classified = <<>> /\ generated = <<>>

InitView == score_result \in ScoreResults /\ classified = <<>> /\ generated = <<>>

\* one call of Classifier().classify(score_result)
Classify ==
    /\ Len(classified) < MaxCalls
    /\ classified' = Append(classified, classify(score_result))
    /\ UNCHANGED <<score_result, generated>>

\* the triggers are consumed while they are read
GenerateConsuming ==
    /\ Len(generated) < MaxCalls
    /\ generated' = Append(generated, generate(score_result))
    /\ score_result' = [score_result EXCEPT !.triggers = <<>>]
    /\ UNCHANGED classified

\* one call of MessageGenerator().generate(score_result)
Generate ==
    /\ Len(generated) < MaxCalls
    /\ generated' = Append(generated, generate(score_result))
    /\ UNCHANGED <<score_result, classified>>

NextView == Classify \/ Generate

----------------------------------------------------------------------------
(* The pipeline of main() and analyze_processes: analyze, then              *)
(* score_from_heuristic_output on what it returned.                          *)

s_tmp_evil == <<"/", "t", "m", "p", "/", "e", "v", "i", "l">>   \* '/tmp/evil'

\* {"exe_path": "/tmp/evil", "signature": {"signed": False}}
EvilRecord ==
    [k \in {"exe_path", "signature"} |->
        IF k = "exe_path" THEN PyStr(s_tmp_evil)
        ELSE PyDict([x \in {"signed"} |-> PyBool(FALSE)])]

PipeRecords ==
    {EvilRecord} \cup CallerRecords \cup RecordsOver({"exe_path", "signature"})
        \cup RecordsOver({"network"})

\* The dicts handed to score_from_heuristic_output: what analyze returned, the
\* same with another score field, and one without its triggers.
HeuristicOutputs(out) ==
    {[score |-> s, triggers |-> out.triggers] : s \in {out.score, 0, 100}}
        \cup {[score |-> out.score]}

IdlePipe == heuristic_output = NoOut

InitPipe ==
    /\ engine \in Engines /\ triggers = <<>> /\ result = NoResult
    /\ process_data \in PipeRecords /\ heur_out = NoOut
    /\ heuristic_output = NoOut

\* heur_out = heuristic.analyze(process_data)
PipeAnalyze ==
    /\ Analyze
    /\ UNCHANGED <<engine, triggers, result, heuristic_output>>

\* score_result = scorer.score_from_heuristic_output(heuristic_output)
PipeScore(ho) ==
    /\ ~IsResult(result)
    /\ heuristic_output' = ho
    /\ result' = score_from_heuristic_output(engine, ho)
    /\ UNCHANGED <<engine, triggers, process_data, heur_out>>

NextPipe ==
    \/ PipeAnalyze
    \/ \E ho \in (IF IsOut(heur_out) /\ ~heur_out.raised
                  THEN HeuristicOutputs(heur_out) ELSE {}) : PipeScore(ho)

----------------------------------------------------------------------------
(* HeuristicEngine.analyze over self.rules held in another order.          *)

Reverse(s) == [i \in 1..Len(s) |-> s[Len(s) + 1 - i]]
Rotate(s, n) == [i \in 1..Len(s) |-> s[((i - 1 + n) % Len(s)) + 1]]
Swap(s, n) ==
    [i \in 1..Len(s) |-> IF i = n THEN s[n + 1] ELSE IF i = n + 1 THEN s[n] ELSE s[i]]

\* Orders of self.rules: the declared one, its reverse, every rotation and
\* every exchange of two neighbours.
RuleOrders ==
    {rules, Reverse(rules)}
        \cup {Rotate(rules, n) : n \in 1..(Len(rules) - 1)}
        \cup {Swap(rules, n) : n \in 1..(Len(rules) - 1)}

OrderRecords ==
    PipeRecords \cup
    UNION {RecordsOver(K) : K \in {X \in SUBSET Keys : Cardinality(X) <= MaxFields - 1}}

IdleOrder == rule_order = rules

InitOrder ==
    /\ rule_order \in RuleOrders
    /\ process_data \in OrderRecords /\ heur_out = NoOut

\* one call of analyze on an engine whose rules list is rule_order
AnalyzeInOrder ==
    /\ ~IsOut(heur_out)
    /\ heur_out' = analyze_rules(rule_order, process_data)
    /\ UNCHANGED <<process_data, rule_order>>

NextOrder == AnalyzeInOrder

----------------------------------------------------------------------------
(* AnalysisEngine.analyze_processes (backend_server.py): one cycle over the *)
(* process list, each process analysed, scored and, when judged suspect,    *)
(* turned into an alert of the LearningModule.                              *)

\* `x or ""`
OrEmpty(x) == IF IsNone(x) \/ x.v = <<>> THEN PyStr(s_empty) ELSE x

\* What analyze_processes learns of one process: the entry of the process
\* list (pid, name, exe, username), the parent name psutil gives (None when
\* it gives none) and the connections NetworkAnalyzer lists, which carry no
\* geo field.
ProcFacts ==
    [name : {PyStr(s_sh), PyStr(s_bash)},
     exe : {PyNone, PyStr(s_tmp_e)},
     username : {PyNone, PyStr(s_root)},
     parent_name : {PyNone, PyStr(s_systemd), PyStr(s_firefox)},
     network : {<<>>, <<[k \in {"raddr_ip"} |-> PyNone]>>}]

\* the process lists of a cycle: process i has pid i
ProcessLists ==
    {[i \in 1..Len(l) |-> [pid |-> i, facts |-> l[i]]] : l \in SeqsUpTo(ProcFacts, MaxProcs)}

\* the process_data dict analyze_processes hands to the heuristic engine
process_data_of(proc) ==
    caller_record(proc.facts.name.v, OrEmpty(proc.facts.exe).v,
                  OrEmpty(proc.facts.username).v, proc.facts.parent_name,
                  proc.facts.network, PyNone)

\* the fields of a result entry that the analysis decides
ProcResult(proc, score, level, ntriggers, triggered_rules) ==
    [pid |-> proc.pid, name |-> proc.facts.name.v, score |-> score, level |-> level,
     triggers |-> ntriggers, triggered_rules |-> triggered_rules]

\* the entry of a process whose analysis raised, or that no engine analysed
SafeResult(proc) == ProcResult(proc, 0, "SAFE", 0, <<>>)

severity_map(level) ==
    CASE level = "SUSPICIOUS" -> "warning"
      [] level = "DANGEROUS" -> "critical"
      [] OTHER -> "info"

RuleIdsOf(trigs) == [i \in 1..Len(trigs) |-> trigs[i].rule_id]

IdleCycle == modules = FALSE /\ targets = <<>> /\ proc_results = <<>>

\* AnalysisEngine.__init__ (its imports succeed or fail together), the
\* LearningModule it builds, and the targets of one analyze_processes call
InitCycle ==
    /\ modules \in BOOLEAN
    /\ targets \in ProcessLists
    /\ proc_results = <<>>
    /\ InitStore

\* One pass of `for proc in targets`, with the inner try/except left out: an
\* exception of analyze reaches the outer handler, which reports an error entry.
AnalyzeProcessOuterExcept(now1, now2) ==
    /\ Len(proc_results) < Len(targets)
    /\ LET proc == targets[Len(proc_results) + 1]
           out == analyze(process_data_of(proc))
           sr == score_from_heuristic_output(ScoringEngine(PyNone, PyNone, PyNone),
                     [score |-> out.score, triggers |-> out.triggers])
           triggered_rules == RuleIdsOf(sr.triggers)
           res == ProcResult(proc, sr.total_score, sr.level, Len(sr.triggers),
                             triggered_rules)
       IN IF ~modules
          THEN /\ proc_results' = Append(proc_results, SafeResult(proc))
               /\ UNCHANGED storeVars
          ELSE IF out.raised
          THEN /\ proc_results' = Append(proc_results,
                                         [error |-> out.error, pid |-> proc.pid])
               /\ UNCHANGED storeVars
          ELSE IF sr.level \in {"SUSPICIOUS", "DANGEROUS"}
          THEN /\ create_alert(
                     AlertArgsOf(proc.pid, proc.facts.name.v, severity_map(sr.level),
                                 <<"Processus", Lower(Chars(sr.level)), proc.facts.name.v>>,
                                 <<"Score de risque", sr.total_score, triggered_rules>>,
                                 triggered_rules),
                     now1, now2)
               /\ proc_results' =
                     Append(proc_results,
                            res @@ [k \in {"alert_id"} |->
                                       AlertId(alert_counter, proc.pid, now1)])
          ELSE /\ proc_results' = Append(proc_results, res)
               /\ UNCHANGED storeVars
    /\ UNCHANGED <<modules, targets>>

\* One pass of `for proc in targets`: the process is analysed and scored, an
\* alert is created when its level is SUSPICIOUS or DANGEROUS, and its entry
\* is appended to results.  An exception of analyze or of the scoring gives
\* the entry of a safe process.
AnalyzeProcess(now1, now2) ==
    /\ Len(proc_results) < Len(targets)
    /\ LET proc == targets[Len(proc_results) + 1]
           out == analyze(process_data_of(proc))
           sr == score_from_heuristic_output(ScoringEngine(PyNone, PyNone, PyNone),
                     [score |-> out.score, triggers |-> out.triggers])
           triggered_rules == RuleIdsOf(sr.triggers)
           res == ProcResult(proc, sr.total_score, sr.level, Len(sr.triggers),
                             triggered_rules)
       IN IF ~modules \/ out.raised
          THEN /\ proc_results' = Append(proc_results, SafeResult(proc))
               /\ UNCHANGED storeVars
          ELSE IF sr.level \in {"SUSPICIOUS", "DANGEROUS"}
          THEN /\ create_alert(
                     AlertArgsOf(proc.pid, proc.facts.name.v, severity_map(sr.level),
                                 <<"Processus", Lower(Chars(sr.level)), proc.facts.name.v>>,
                                 <<"Score de risque", sr.total_score, triggered_rules>>,
                                 triggered_rules),
                     now1, now2)
               /\ proc_results' =
                     Append(proc_results,
                            res @@ [k \in {"alert_id"} |->
                                       AlertId(alert_counter, proc.pid, now1)])
          ELSE /\ proc_results' = Append(proc_results, res)
               /\ UNCHANGED storeVars
    /\ UNCHANGED <<modules, targets>>

NextCycle == \E p \in TimePairs : AnalyzeProcess(p[1], p[2])

----------------------------------------------------------------------------
(* Specifications *)

\* the variables a specification leaves alone rest at their idle values
IdleRest == IdlePipe /\ IdleView /\ IdleOrder /\ IdleCycle
restVars == <<heuristic_output, score_result, classified, generated,
              rule_order, modules, targets, proc_results>>

Init == InitScore /\ IdleHeur /\ IdleStore /\ IdleRest
Next == NextScore /\ UNCHANGED heurVars /\ UNCHANGED storeVars /\ UNCHANGED restVars
\* the scoring engine, called on growing trigger lists
Spec == Init /\ [][Next]_vars

InitH == IdleScore /\ InitHeur /\ IdleStore /\ IdleRest
NextH == NextHeur /\ UNCHANGED scoreVars /\ UNCHANGED storeVars /\ UNCHANGED restVars
\* the heuristic engine, called on one process record
SpecHeur == InitH /\ [][NextH]_vars

InitS == IdleScore /\ IdleHeur /\ InitStore /\ IdleRest
NextS == NextStore /\ UNCHANGED scoreVars /\ UNCHANGED heurVars /\ UNCHANGED restVars
\* the alert store, its methods called one after the other
SpecStore == InitS /\ [][NextS]_vars

NextA == NextAlert /\ UNCHANGED scoreVars /\ UNCHANGED heurVars /\ UNCHANGED restVars
\* the first create_alert of a store, over every argument list
SpecAlert == InitS /\ [][NextA]_vars


InitT == IdleScore /\ IdleHeur /\ InitThreads /\ IdleRest
NextT == NextThreads /\ UNCHANGED scoreVars /\ UNCHANGED heurVars /\ UNCHANGED restVars
\* the alert store under concurrent create_alert calls
SpecThreads == InitT /\ [][NextT]_vars

InitV == IdleScore /\ IdleHeur /\ IdleStore /\ IdlePipe /\ InitView
            /\ IdleOrder /\ IdleCycle
NextV == NextView /\ UNCHANGED scoreVars /\ UNCHANGED heurVars /\ UNCHANGED storeVars
            /\ UNCHANGED pipeVars /\ UNCHANGED orderVars /\ UNCHANGED cycleVars
\* classify and generate, called on one ScoreResult
SpecView == InitV /\ [][NextV]_vars

InitP == InitPipe /\ IdleStore /\ IdleView /\ IdleOrder /\ IdleCycle
NextP == NextPipe /\ UNCHANGED storeVars /\ UNCHANGED viewVars
            /\ UNCHANGED orderVars /\ UNCHANGED cycleVars
\* analyze followed by score_from_heuristic_output
SpecPipe == InitP /\ [][NextP]_vars

InitO == IdleScore /\ InitOrder /\ IdleStore /\ IdlePipe /\ IdleView /\ IdleCycle
NextO == NextOrder /\ UNCHANGED scoreVars /\ UNCHANGED storeVars /\ UNCHANGED pipeVars
            /\ UNCHANGED viewVars /\ UNCHANGED cycleVars
\* analyze, called on one record with the rules in some order
SpecOrder == InitO /\ [][NextO]_vars

InitC == IdleScore /\ IdleHeur /\ InitCycle /\ IdlePipe /\ IdleView /\ IdleOrder
NextC == NextCycle /\ UNCHANGED scoreVars /\ UNCHANGED heurVars /\ UNCHANGED pipeVars
            /\ UNCHANGED viewVars /\ UNCHANGED orderVars
\* one analyze_processes cycle over a process list; the loop runs to its end
SpecCycle == InitC /\ [][NextC]_vars /\ WF_vars(NextC)

----------------------------------------------------------------------------
(* Properties of the scoring engine (Spec) *)

\* C1: for every trigger list and engine configuration, the ScoreResult of
\* score_from_triggers has total_score equal to the sum of adjusted_scores
\* over all rule ids.
C1_TotalIsSumOfAdjusted ==
    IsResult(result) => result.total_score = SumValues(result.adjusted_scores)

\* a result over two rule ids, one of them weighted or overridden
C1_Witness ==
    /\ IsResult(result)
    /\ Cardinality(DOMAIN result.adjusted_scores) >= 2
    /\ result.adjusted_scores # result.breakdown
    /\ result.total_score > 0

\* C2: the tier is decided by the weighted total with inclusive upper bounds:
\* total <= safe_max is SAFE, safe_max < total <= suspicious_max is
\* SUSPICIOUS, anything larger is DANGEROUS; with the default thresholds
\* 30 is SAFE, 31 and 70 are SUSPICIOUS, 71 is DANGEROUS.
C2_TierByInclusiveThresholds ==
    IsResult(result) =>
        LET total == result.total_score
            safe_max == engine.thresholds.safe
            suspicious_max == engine.thresholds.suspicious
        IN /\ total <= safe_max => result.level = "SAFE"
           /\ (safe_max < total /\ total <= suspicious_max) => result.level = "SUSPICIOUS"
           /\ (safe_max < total /\ suspicious_max < total) => result.level = "DANGEROUS"
           /\ (safe_max = 30 /\ suspicious_max = 70) =>
                /\ total = 30 => result.level = "SAFE"
                /\ total = 31 => result.level = "SUSPICIOUS"
                /\ total = 70 => result.level = "SUSPICIOUS"
                /\ total = 71 => result.level = "DANGEROUS"

\* a total on the SUSPICIOUS bound of the default thresholds
C2_Witness ==
    /\ IsResult(result)
    /\ engine.thresholds = DEFAULT_THRESHOLDS
    /\ result.total_score = 70
    /\ result.level = "SUSPICIOUS"

TierRank(level) ==
    CASE level = "SAFE" -> 0 [] level = "SUSPICIOUS" -> 1 [] level = "DANGEROUS" -> 2

\* C6: for a fixed engine, appending a trigger whose effective score is
\* positive never decreases total_score and never yields a lower tier, and
\* the tier depends on total_score only (here: over the results of all the
\* prefixes of the list).
C6_Monotonic ==
    IsResult(result) =>
        /\ Len(triggers) >= 1 =>
             LET last == triggers[Len(triggers)]
                 before == score_from_triggers(engine, SubSeq(triggers, 1, Len(triggers) - 1))
             IN _apply_weight(engine, last.rule_id, last.score) > 0 =>
                  /\ result.total_score >= before.total_score
                  /\ TierRank(result.level) >= TierRank(before.level)
        /\ \A k \in 0..Len(triggers) :
             LET r == score_from_triggers(engine, SubSeq(triggers, 1, k))
             IN /\ r.total_score = result.total_score => r.level = result.level
                /\ r.total_score <= result.total_score =>
                     TierRank(r.level) <= TierRank(result.level)

\* a positive trigger appended to a list that scored above zero, moving the
\* result to a higher tier
C6_Witness ==
    /\ IsResult(result)
    /\ Len(triggers) >= 2
    /\ LET last == triggers[Len(triggers)]
           before == score_from_triggers(engine, SubSeq(triggers, 1, Len(triggers) - 1))
       IN /\ _apply_weight(engine, last.rule_id, last.score) > 0
          /\ before.total_score > 0
          /\ TierRank(result.level) > TierRank(before.level)

----------------------------------------------------------------------------
(* Properties of the heuristic engine (SpecHeur) *)

\* C3: HeuristicEngine.analyze never raises for any process record, also when
\* optional facts are absent (key missing or value None): the affected rule
\* does not fire and a {score, triggers} result is returned.
C3_AnalyzeNeverRaises ==
    IsOut(heur_out) => ~heur_out.raised

----------------------------------------------------------------------------
(* Properties of create_alert under concurrent calls (SpecThreads) *)

\* C4: when several threads call create_alert concurrently, every call gets
\* an id distinct from all others, every created alert remains stored, and
\* the counter loses no increment.
C4_ConcurrentCallsKeepAll ==
    /\ \A i, j \in 1..Len(returned) : i # j => returned[i].id # returned[j].id
    /\ Len(alerts) = Len(returned)
    /\ (\A t \in Threads : th[t].pc = "idle") => alert_counter = Len(returned)

\* C8: once create_alert has returned an alert with id X, get_alert(X)
\* returns that same alert in every later state of the store: alerts are
\* never removed, replaced or expired.
C8_ReturnedAlertStaysStored ==
    \A i \in 1..Len(returned) : Lookup(alerts, returned[i].id) = Object(returned[i])

----------------------------------------------------------------------------
(* Properties of the alert store under sequential calls (SpecStore) *)

\* C5: N sequential calls to create_alert produce N pairwise distinct alert
\* ids, for any process ids and even when all calls fall in one second.
C5_SequentialIdsDistinct ==
    \A i, j \in 1..Len(returned) : i # j => returned[i].id # returned[j].id

\* three calls for the same process within the same second
C5_Witness ==
    /\ Len(returned) >= 3
    /\ \A i \in 1..Len(returned) :
         /\ returned[i].process_id = returned[1].process_id
         /\ SubSeq(returned[i].timestamp, 1, 3) = SubSeq(returned[1].timestamp, 1, 3)

\* alert x comes before alert y in the order get_recent_alerts is to follow:
\* later timestamp first, equal timestamps in creation order
RecentBefore(x, y) ==
    \/ StrLess(y.timestamp, x.timestamp)
    \/ x.timestamp = y.timestamp /\ IndexOf(alerts, x.id) < IndexOf(alerts, y.id)

\* C9: for any limit >= 0, get_recent_alerts(limit) returns min(limit, number
\* of stored alerts) alerts from the front of the list of all alerts sorted
\* by timestamp descending, equal timestamps in creation order.
C9_RecentAlerts ==
    op.name = "get_recent_alerts" =>
        LET l == ret.v
            limit == op.arg
        IN /\ Len(l) = (IF limit < Len(alerts) THEN limit ELSE Len(alerts))
           /\ Range(l) \subseteq Range(alerts)
           /\ \A i, j \in 1..Len(l) : i < j => RecentBefore(l[i], l[j])
           /\ \A a \in Range(alerts) \ Range(l) : \A i \in 1..Len(l) : RecentBefore(l[i], a)

\* a truncating call on a store that holds a tie and an out-of-order pair
C9_Witness ==
    /\ op.name = "get_recent_alerts"
    /\ op.arg = 2
    /\ Len(alerts) >= 3
    /\ \E i, j \in 1..Len(alerts) : i < j /\ alerts[i].timestamp = alerts[j].timestamp
    /\ \E i, j \in 1..Len(alerts) : i < j /\ StrLess(alerts[i].timestamp, alerts[j].timestamp)

ReadNames ==
    {"get_alert", "get_recent_alerts", "get_alerts_by_severity", "get_learning_resource",
     "get_all_learning_resources", "get_learning_resources_by_category",
     "get_learning_resources_by_difficulty"}

\* C10: the read accessors leave the alert map, the alert counter and the
\* resource catalog unchanged.
C10_ReadsLeaveStateUnchanged ==
    [][op'.name \in ReadNames => UNCHANGED <<alerts, alert_counter, resources>>]_vars

\* get_recent_alerts has returned the alerts in another order than stored
C10_Witness ==
    /\ op.name = "get_recent_alerts"
    /\ Len(alerts) >= 2
    /\ ret.v # alerts
    /\ Len(ret.v) = Len(alerts)

----------------------------------------------------------------------------
(* Properties of one create_alert call over every rule list (SpecAlert) *)

----------------------------------------------------------------------------
(* Properties of the accessors on unknown keys (SpecStore) *)

\* C11: get_alert and get_learning_resource return None for an id that is
\* not stored, and get_alerts_by_severity, get_learning_resources_by_category
\* and get_learning_resources_by_difficulty return an empty list for a value
\* no stored element has; each of them returns, none raises.
C11_UnknownKeysGiveAbsent ==
    /\ (op.name = "get_alert" /\ \A i \in 1..Len(alerts) : alerts[i].id # op.arg)
          => ret = PyNone
    /\ (op.name = "get_learning_resource"
          /\ \A i \in 1..Len(resources) : resources[i].id # op.arg)
          => ret = PyNone
    /\ (op.name = "get_alerts_by_severity"
          /\ \A i \in 1..Len(alerts) : alerts[i].severity # op.arg)
          => ret = PyList(<<>>)
    /\ (op.name = "get_learning_resources_by_category"
          /\ \A i \in 1..Len(resources) : resources[i].category # op.arg)
          => ret = PyList(<<>>)
    /\ (op.name = "get_learning_resources_by_difficulty"
          /\ \A i \in 1..Len(resources) : resources[i].difficulty # op.arg)
          => ret = PyList(<<>>)
    /\ op.name \in ReadNames => "raised" \notin DOMAIN ret

\* get_alert was called with an id the non-empty store does not hold
C11_Witness ==
    /\ op.name = "get_alert"
    /\ Len(alerts) >= 1
    /\ \A i \in 1..Len(alerts) : alerts[i].id # op.arg
    /\ ret = PyNone

----------------------------------------------------------------------------
(* Properties of analyze followed by scoring (SpecPipe) *)

\* the (rule_id, score) pairs of a trigger list
RuleScores(trigs) == [i \in 1..Len(trigs) |-> <<trigs[i].rule_id, trigs[i].score>>]

----------------------------------------------------------------------------
(* Properties of classify and generate (SpecView) *)

C14_UnknownLevelGivesSafe ==
    \A i \in 1..Len(classified) :
        Upper(Chars(score_result.level)) \notin {s_SAFE, s_SUSPICIOUS, s_DANGEROUS} =>
            /\ classified[i].label = s_SAFE
            /\ classified[i].level = 0
            /\ classified[i].explanation = ""

----------------------------------------------------------------------------
(* Properties of the triggers analyze hands back (SpecHeur) *)

\* the connection list of a record ([] when the key is missing)
ConnsOf(data) ==
    LET n == Get(data, "network", PyList(<<>>))
    IN IF n.t = "list" THEN n.v ELSE <<>>

\* the connection has a geo code that is, in lower case, a sensitive zone
Sensitive(conn) ==
    /\ "geo" \in DOMAIN conn
    /\ conn["geo"].t = "str"
    /\ Lower(conn["geo"].v) \in suspicious_zones

\* the triggers the caller of analyze receives: none when the call raised
TriggersOf(out) == IF out.raised THEN <<>> ELSE out.triggers

CountRule(trigs, rule_id) ==
    Cardinality({i \in 1..Len(trigs) : trigs[i].rule_id = rule_id})

\* C15: analyze returns as many NETWORK_SUSPICIOUS_IP triggers as the record
\* has connections whose geo code, compared case-insensitively, is in the
\* sensitive-zone set, each with score 30 (3 such connections: 3 triggers,
\* raw total 90), and at most one NETWORK_MANY_CONN trigger whatever the
\* connection count.
C15_OneTriggerPerSensitiveConnection ==
    IsOut(heur_out) =>
        LET trigs == TriggersOf(heur_out)
            conns == ConnsOf(process_data)
        IN /\ CountRule(trigs, "NETWORK_SUSPICIOUS_IP")
                 = Cardinality({i \in 1..Len(conns) : Sensitive(conns[i])})
           /\ \A i \in 1..Len(trigs) :
                 trigs[i].rule_id = "NETWORK_SUSPICIOUS_IP" => trigs[i].score = 30
           /\ CountRule(trigs, "NETWORK_MANY_CONN") <= 1
           /\ process_data = [k \in {"network"} |-> PyList(SensitiveConns)] =>
                 /\ ~heur_out.raised
                 /\ Len(trigs) = 3
                 /\ heur_out.score = 90

\* the values a field has when nothing is known: its default, None, zero
DefaultValues(k) ==
    CASE k \in {"exe_path", "user", "name"} -> {PyStr(s_empty)}
      [] k = "parent_name" -> {PyNone, PyStr(s_empty)}
      [] k \in {"cpu_percent", "memory_rss"} -> {PyInt(0)}
      [] k = "network" -> {PyList(<<>>)}
      [] k \in {"signature", "integrity"} -> {PyNone, PyDict(EmptyDict)}

AllDefault(data) == \A k \in DOMAIN data : data[k] \in DefaultValues(k)

\* C16: for a record whose fields are all at their default, absent or zero
\* values, analyze returns an empty trigger list and raw score 0.
C16_AllDefaultGivesNothing ==
    (IsOut(heur_out) /\ AllDefault(process_data)) =>
        /\ ~heur_out.raised
        /\ heur_out.triggers = <<>>
        /\ heur_out.score = 0

RECURSIVE IsolatedResults(_, _, _)
\* the results of the rules of rs whose check returns on data, in rule order
IsolatedResults(rs, data, i) ==
    IF i > Len(rs) THEN <<>>
    ELSE LET r == check(rs[i], data)
         IN (IF r.raised THEN <<>> ELSE r.results) \o IsolatedResults(rs, data, i + 1)

\* C19: when a rule raises on the record, analyze is not aborted: it returns,
\* without that rule, the triggers of every other rule that fires.
C19_RuleFailuresIsolated ==
    (IsOut(heur_out) /\ \E i \in 1..Len(rules) : check(rules[i], process_data).raised) =>
        /\ ~heur_out.raised
        /\ heur_out.triggers = IsolatedResults(rules, process_data, 1)

----------------------------------------------------------------------------
(* Further properties of the scoring engine (Spec) *)

\* C17: score_from_triggers on the empty list returns total_score 0, level
\* SAFE and an empty breakdown; and a rule_id that has neither a weight nor
\* an override contributes exactly its raw scores (multiplier 1.0).
C17_EmptyListAndPassThrough ==
    IsResult(result) =>
        /\ triggers = <<>> =>
             /\ result.total_score = 0
             /\ result.level = "SAFE"
             /\ DOMAIN result.breakdown = {}
        /\ \A r \in DOMAIN result.adjusted_scores :
             r \notin (DOMAIN engine.rule_weights \cup DOMAIN engine.absolute_overrides) =>
                 result.adjusted_scores[r] = result.breakdown[r]
        /\ (\A i \in 1..Len(triggers) :
               triggers[i].rule_id \notin
                   (DOMAIN engine.rule_weights \cup DOMAIN engine.absolute_overrides)) =>
             result.total_score = SumScores(triggers)

\* an engine with weights and overrides scored a list that holds a rule it
\* has neither for, next to one it changes
C17_Witness ==
    /\ IsResult(result)
    /\ DOMAIN engine.rule_weights # {}
    /\ DOMAIN engine.absolute_overrides # {}
    /\ "NETWORK_SUSPICIOUS_IP" \in DOMAIN result.adjusted_scores
    /\ result.adjusted_scores["NETWORK_SUSPICIOUS_IP"] = 60
    /\ result.adjusted_scores # result.breakdown

\* the triggers of rule_id in a trigger list
OfRule(trigs, rule_id) ==
    LET P(t) == t.rule_id = rule_id
    IN SelectSeq(trigs, P)

----------------------------------------------------------------------------
(* score_from_heuristic_output (SpecPipe) *)

\* C18: score_from_heuristic_output depends on the triggers of its argument
\* only: whatever the score field holds, the ScoreResult is the one
\* score_from_triggers gives on the argument's trigger list (so two arguments
\* with the same triggers and different score fields give equal results).
C18_ScoreFieldIgnored ==
    IsResult(result) =>
        LET trigs == DictGet(heuristic_output, "triggers", <<>>)
        IN /\ result = score_from_triggers(engine, trigs)
           /\ result.total_score = SumValues(result.adjusted_scores)
           /\ RuleScores(result.triggers) = RuleScores(trigs)
           /\ \A ho \in HeuristicOutputs(heur_out) :
                DictGet(ho, "triggers", <<>>) = trigs =>
                    score_from_heuristic_output(engine, ho) = result

\* an argument whose score field is not the sum of its triggers' scores
C18_Witness ==
    /\ IsResult(result)
    /\ "triggers" \in DOMAIN heuristic_output
    /\ Len(heuristic_output.triggers) >= 2
    /\ heuristic_output.score = 100
    /\ heuristic_output.score # heur_out.score
    /\ result.total_score # 100

----------------------------------------------------------------------------
(* Rounding of weighted scores (Spec) *)

\* n/4 rounded half-up, for n >= 0
RoundHalfUp(n) == (2 * n + One) \div (2 * One)

RECURSIVE SumHalfUp(_, _)
\* the sum over trigs of score * w rounded half-up
SumHalfUp(trigs, w) ==
    IF trigs = <<>> THEN 0
    ELSE RoundHalfUp(Head(trigs).score * w) + SumHalfUp(Tail(trigs), w)

\* C21: for a fractional rule weight the effective score of a trigger is
\* raw_score * weight rounded half-up: a product ending in .5 goes to the
\* next integer (raw 25 with weight 0.5 gives 13, raw 10 with weight 0.25
\* gives 3).
C21_RoundHalfUp ==
    IsResult(result) =>
        \A r \in (DOMAIN result.adjusted_scores \cap DOMAIN engine.rule_weights)
                    \ DOMAIN engine.absolute_overrides :
            result.adjusted_scores[r] = SumHalfUp(OfRule(triggers, r), engine.rule_weights[r])

----------------------------------------------------------------------------
(* Further properties of the rules (SpecHeur) *)

\* the record has a signature fact whose signed field is False
SignedFalse(data) ==
    /\ "signature" \in DOMAIN data
    /\ data["signature"].t = "dict"
    /\ "signed" \in DOMAIN data["signature"].v
    /\ data["signature"].v["signed"] = PyBool(FALSE)

\* C22: UNSIGNED_BINARY fires exactly when the record has a signature fact
\* whose signed field is explicitly false; with no signature, with signature
\* None, or with signed true or unknown the rule yields no trigger.
C22_UnsignedOnlyOnExplicitFalse ==
    IsOut(heur_out) =>
        LET r == check("RuleUnsignedBinary", process_data)
        IN /\ ~r.raised
           /\ SignedFalse(process_data) =>
                 /\ Len(r.results) = 1
                 /\ r.results[1].rule_id = "UNSIGNED_BINARY"
           /\ ~SignedFalse(process_data) => r.results = <<>>
           /\ ~heur_out.raised =>
                 CountRule(heur_out.triggers, "UNSIGNED_BINARY")
                     = (IF SignedFalse(process_data) THEN 1 ELSE 0)

----------------------------------------------------------------------------
(* Independence of the rules (SpecOrder) *)

\* the rule_id of each rule class, in declaration order
DeclaredRuleIds ==
    <<"PATH_TMP", "HIDDEN_FILE", "NETWORK_MANY_CONN", "NETWORK_SUSPICIOUS_IP",
      "UNSIGNED_BINARY", "ADMIN_PRIVILEGE", "HIGH_CPU", "HIGH_MEMORY",
      "SUSPICIOUS_PARENT", "INTEGRITY_FAIL">>

DeclaredPos(rule_id) == CHOOSE i \in 1..Len(DeclaredRuleIds) : DeclaredRuleIds[i] = rule_id

\* how many times t occurs in the list l
Occurrences(l, t) == Cardinality({i \in 1..Len(l) : l[i] = t})

\* C23: with the rules in any order analyze yields the same multiset of
\* triggers as with the declared order (and raises on the same records);
\* with the declared order the triggers are grouped in rule-declaration order.
C23_RuleOrderIrrelevant ==
    IsOut(heur_out) =>
        LET declared == analyze(process_data)
        IN /\ heur_out.raised = declared.raised
           /\ ~heur_out.raised =>
                 /\ \A t \in Range(heur_out.triggers) \cup Range(declared.triggers) :
                        Occurrences(heur_out.triggers, t) = Occurrences(declared.triggers, t)
                 /\ heur_out.score = declared.score
                 /\ rule_order = rules =>
                        \A i, j \in 1..Len(heur_out.triggers) :
                            i < j => DeclaredPos(heur_out.triggers[i].rule_id)
                                        <= DeclaredPos(heur_out.triggers[j].rule_id)

\* analyze has returned, with the rules reversed, several triggers of several
\* rules in another order than the declared one
C23_Witness ==
    /\ IsOut(heur_out) /\ ~heur_out.raised
    /\ rule_order = Reverse(rules)
    /\ Len(heur_out.triggers) >= 3
    /\ heur_out.triggers # analyze(process_data).triggers
    /\ \E i, j \in 1..Len(heur_out.triggers) :
          heur_out.triggers[i].rule_id = heur_out.triggers[j].rule_id /\ i # j

----------------------------------------------------------------------------
(* Further properties of the message generator (SpecView) *)

\* the triggers of trigs whose rule id is a key of table, in order
MappedTriggers(trigs, table) ==
    SelectSeq(trigs, LAMBDA t : t.rule_id \in DOMAIN table)

\* C24: generate emits one details line per trigger, in trigger order and
\* built from the trigger's own message, and an explanation (a best-practice)
\* line only for the triggers whose rule id the explanation (practice) table
\* holds, in order, nothing standing for the others.
C24_LinesPerTrigger ==
    \A n \in 1..Len(generated) :
        LET g == generated[n]
            trigs == score_result.triggers
            explained == MappedTriggers(trigs, RULE_EXPLANATIONS)
            advised == MappedTriggers(trigs, RULE_PRACTICES)
        IN /\ Len(g.details) = Len(trigs)
           /\ \A i \in 1..Len(trigs) : g.details[i] = <<"* ", trigs[i].message>>
           /\ g.explanations =
                 [i \in 1..Len(explained) |-> <<"- ", RULE_EXPLANATIONS[explained[i].rule_id]>>]
           /\ g.best_practices =
                 [i \in 1..Len(advised) |-> <<"> ", RULE_PRACTICES[advised[i].rule_id]>>]

\* generate has run on triggers with different messages, one of a rule id
\* without text between two of rule ids that have one
C24_Witness ==
    /\ Len(generated) >= 1
    /\ \E i, j, k \in 1..Len(score_result.triggers) :
          /\ i < j /\ j < k
          /\ score_result.triggers[i].rule_id \in DOMAIN RULE_EXPLANATIONS
          /\ score_result.triggers[j].rule_id \notin DOMAIN RULE_EXPLANATIONS
          /\ score_result.triggers[k].rule_id \in DOMAIN RULE_EXPLANATIONS
          /\ score_result.triggers[i].message # score_result.triggers[k].message
          /\ score_result.triggers[i].message # <<>>
    /\ Len(generated[1].explanations) = 2

\* C28: for every ScoreResult the output of generate has as many explanations
\* as best practices, at most as many as details, and as many details as the
\* ScoreResult has triggers; the two tables have the same key set.
C28_ListLengths ==
    /\ DOMAIN RULE_EXPLANATIONS = DOMAIN RULE_PRACTICES
    /\ \A n \in 1..Len(generated) :
          LET g == generated[n]
          IN /\ Len(g.explanations) = Len(g.best_practices)
             /\ Len(g.best_practices) <= Len(g.details)
             /\ Len(g.details) = Len(score_result.triggers)

\* generate has run on a ScoreResult with PATH_TMP and with a trigger that has
\* no text: fewer explanations than details, and at least one
C28_Witness ==
    /\ Len(generated) >= 1
    /\ \E i \in 1..Len(score_result.triggers) : score_result.triggers[i].rule_id = "PATH_TMP"
    /\ Len(generated[1].explanations) >= 1
    /\ Len(generated[1].explanations) < Len(generated[1].details)

----------------------------------------------------------------------------
(* Further properties of the alert store (SpecStore, SpecAlert) *)

\* C26: after any sequence of sequential create_alert calls the number of
\* stored alerts equals alert_counter, which equals the number of calls made:
\* each call added one entry and one to the counter.
C26_StoredEqualsCounter ==
    /\ Len(alerts) = alert_counter
    /\ alert_counter = Len(returned)
    /\ \A i \in 1..Len(returned) : Lookup(alerts, returned[i].id) = Object(returned[i])

\* as many calls as the bound allows, two of them for the same process
C26_Witness ==
    /\ alert_counter = MaxAlerts
    /\ Len(alerts) = MaxAlerts
    /\ returned[1].process_id = returned[2].process_id
    /\ returned[1].process_id # returned[MaxAlerts].process_id

\* C27: every alert stored by create_alert, whatever the triggered rules, has
\* a learning_resources list that is not empty, has no duplicates, and whose
\* every id get_learning_resource resolves to a resource of the catalog.
C27_LearningResourcesResolve ==
    \A n \in 1..Len(alerts) :
        LET lr == alerts[n].learning_resources
        IN /\ lr # <<>>
           /\ \A i, j \in 1..Len(lr) : i # j => lr[i] # lr[j]
           /\ \A i \in 1..Len(lr) :
                 /\ ~IsNone(Lookup(resources, lr[i]))
                 /\ Lookup(resources, lr[i]).v.id = lr[i]

\* an alert is stored whose rules repeat a mapped rule around another one
C27_Witness ==
    /\ Len(alerts) = 1
    /\ alerts[1].triggered_rules = <<"PATH_TMP", "HIGH_CPU", "PATH_TMP">>
    /\ Len(alerts[1].learning_resources) = 2

----------------------------------------------------------------------------
(* Agreement of the two totals (SpecPipe) *)

\* C29: with an engine that has no rule_weights and no absolute_overrides, on
\* every record on which analyze returns, scoring what analyze returned gives
\* a total_score equal to analyze's own score and adjusted_scores equal to
\* breakdown.
C29_TotalsAgreeWithoutWeights ==
    ( /\ IsResult(result)
      /\ engine.rule_weights = EmptyDict /\ engine.absolute_overrides = EmptyDict
      /\ heuristic_output = [score |-> heur_out.score, triggers |-> heur_out.triggers] ) =>
        /\ result.total_score = heur_out.score
        /\ result.adjusted_scores = result.breakdown

\* analyze returned several triggers of one rule and one of another, and the
\* engine without weights scored them
C29_Witness ==
    /\ IsResult(result)
    /\ engine.rule_weights = EmptyDict /\ engine.absolute_overrides = EmptyDict
    /\ heuristic_output = [score |-> heur_out.score, triggers |-> heur_out.triggers]
    /\ Len(heur_out.triggers) >= 3
    /\ heur_out.triggers[1].rule_id = heur_out.triggers[2].rule_id
    /\ result.total_score = 90

----------------------------------------------------------------------------
(* Properties of one analyze_processes cycle (SpecCycle) *)

\* The level of a process: that of the triggers of the rules on its record,
\* a fact the record lacks firing nothing, scored by the default engine.
LevelOf(proc) ==
    score_from_triggers(ScoringEngine(PyNone, PyNone, PyNone),
                        IsolatedResults(rules, process_data_of(proc), 1)).level

\* the stored alerts of the process pid
AlertsOf(pid) == {i \in 1..Len(alerts) : alerts[i].process_id = pid}

C30_RaisingProcessReportedSafe ==
    /\ [](\A i \in 1..Len(proc_results) :
            /\ proc_results[i].pid = targets[i].pid
            /\ (modules /\ analyze(process_data_of(targets[i])).raised) =>
                  /\ proc_results[i] = SafeResult(targets[i])
                  /\ AlertsOf(targets[i].pid) = {})
    /\ <>(Len(proc_results) = Len(targets))

\* the whole list has been gone through although analyze raised for the
\* first process
C30_Witness ==
    /\ modules
    /\ Len(targets) = MaxProcs
    /\ Len(proc_results) = Len(targets)
    /\ analyze(process_data_of(targets[1])).raised
    /\ proc_results[1].level = "SAFE" /\ proc_results[1].score = 0
    /\ LevelOf(targets[1]) # "SAFE"
    /\ alerts = <<>>

=============================================================================
